---- MODULE Spec2Model ----
(***************************************************************************)
(* nomadlogs (src/main.go): the "tail" command.  main parses the target    *)
(* arguments (NewTailCommand), Run starts one watcher per target, every    *)
(* watcher polls the allocation list and spawns one goroutine per          *)
(* selected allocation, which streams stdout/stderr frames into the        *)
(* watcher's channel of logLines; Run's goroutines drain the channels.     *)
(*                                                                         *)
(* Go strings are sequences of one-character strings; error messages are   *)
(* sequences of words.                                                     *)
(***************************************************************************)
EXTENDS Integers, Sequences, FiniteSets, Bags, TLC

\* ------------------------------------------------------------------ bounds
\* number of positional arguments of "tail"
MaxArgs == 2
\* length of one positional argument
MaxArgLen == 3
\* bytes of one stream frame
MaxChunkLen == 3
\* buffer of the lines channel: make(chan logLine, 1000), scaled down so
\* that a full buffer is reached
LinesCap == 1
\* per specification: ticks of time.Tick one watcher sees, goroutines poll
\* spawns and stream frames delivered (all watchers together)
WatchPolls == 2
WatchConsumers == 2
WatchFrames == 1
StreamPolls == 1
StreamConsumers == 2
StreamFrames == 2
TailPolls == 1
TailConsumers == 2
TailFrames == 1
\* logLine.Format: pieces of a raw line, characters of an allocation ID
MaxRawLen == 5
MaxIdLen == 9
\* ls: allocations of a listing
MaxLsAllocs == 2

\* ----------------------------------------------------------------- strings
NL == "\n"
Colon == ":"

SeqsUpTo(S, n) == UNION {[1..k -> S] : k \in 0..n}

\* strings.Split(s, sep) for a one-character separator: the substrings
\* between the separators, empty ones included; Split("") is [""].
RECURSIVE SplitFrom(_, _, _, _, _)
SplitFrom(s, sep, i, cur, acc) ==
    IF i > Len(s) THEN Append(acc, cur)
    ELSE IF s[i] = sep THEN SplitFrom(s, sep, i + 1, <<>>, Append(acc, cur))
    ELSE SplitFrom(s, sep, i + 1, Append(cur, s[i]), acc)

Split(s, sep) == SplitFrom(s, sep, 1, <<>>, <<>>)

\* strings.Contains(s, sub)
Contains(s, sub) ==
    \E i \in 0..(Len(s) - Len(sub)) : SubSeq(s, i + 1, i + Len(sub)) = sub

\* ------------------------------------------------------------ NewTailCommand
NoErr == <<>>
ErrNewClient == <<"nomad.NewClient">>
ErrNoTasks == <<"no tasks specified">>
ErrExpecting(task) == <<"expecting 'job:task' or 'task', got">> \o task

nomadTask(job, task) == [job |-> job, task |-> task]

\* mutant of ParseTasks: job and task are taken the wrong way round
RECURSIVE ParseTasksSwapped(_, _, _)
ParseTasksSwapped(tasks, i, nomadTasks) ==
    IF i > Len(tasks) THEN [nomadTasks |-> nomadTasks, err |-> NoErr]
    ELSE LET split == Split(tasks[i], Colon) IN
         IF Len(split) > 2
         THEN [nomadTasks |-> <<>>, err |-> ErrExpecting(tasks[i])]
         ELSE IF Len(split) = 2
         THEN ParseTasksSwapped(tasks, i + 1,
                         Append(nomadTasks, nomadTask(split[2], split[1])))
         ELSE ParseTasksSwapped(tasks, i + 1,
                         Append(nomadTasks, nomadTask(<<>>, split[1])))

\* mutant of ParseTasks: a malformed argument is passed over
RECURSIVE ParseTasksLenient(_, _, _)
ParseTasksLenient(tasks, i, nomadTasks) ==
    IF i > Len(tasks) THEN [nomadTasks |-> nomadTasks, err |-> NoErr]
    ELSE LET split == Split(tasks[i], Colon) IN
         IF Len(split) > 2
         THEN ParseTasksLenient(tasks, i + 1, nomadTasks)
         ELSE IF Len(split) = 2
         THEN ParseTasksLenient(tasks, i + 1,
                         Append(nomadTasks, nomadTask(split[1], split[2])))
         ELSE ParseTasksLenient(tasks, i + 1,
                         Append(nomadTasks, nomadTask(<<>>, split[1])))

\* the loop of NewTailCommand from argument i on, nomadTasks collected so far
RECURSIVE ParseTasks(_, _, _)
ParseTasks(tasks, i, nomadTasks) ==
    IF i > Len(tasks) THEN [nomadTasks |-> nomadTasks, err |-> NoErr]
    ELSE LET split == Split(tasks[i], Colon) IN
         IF Len(split) > 2
         THEN [nomadTasks |-> <<>>, err |-> ErrExpecting(tasks[i])]
         ELSE IF Len(split) = 2
         THEN ParseTasks(tasks, i + 1,
                         Append(nomadTasks, nomadTask(split[1], split[2])))
         ELSE ParseTasks(tasks, i + 1,
                         Append(nomadTasks, nomadTask(<<>>, split[1])))

\* NewTailCommand(n, follow, addr, isRaw, tasks): newClientOk is whether
\* nomad.NewClient accepted the address.
NewTailCommand(newClientOk, tasks) ==
    IF ~newClientOk THEN [nomadTasks |-> <<>>, err |-> ErrNewClient]
    ELSE IF Len(tasks) = 0 THEN [nomadTasks |-> <<>>, err |-> ErrNoTasks]
    ELSE ParseTasks(tasks, 1, <<>>)

\* ------------------------------------------------------------------- inputs
\* names used by the orchestrator and on the command line
Web == <<"w">>
Db == <<"d">>
App == <<"a">>
Id1 == <<"i", "1">>
Id2 == <<"i", "2">>

\* the positional arguments main may be given
ArgStrings == SeqsUpTo({"a", Colon}, MaxArgLen)
ArgLists == SeqsUpTo(ArgStrings, MaxArgs)

\* what Allocations().List may return: stubs of distinct allocations
TaskStateMaps == {[t \in {} |-> "running"], [t \in {App} |-> "running"]}
AllocStubs(ids) ==
    [ID : ids, JobID : {Web, Db}, ClientStatus : {"running", "pending"},
     TaskStates : TaskStateMaps]
Listings(ids) ==
    {l \in SeqsUpTo(AllocStubs(ids), Cardinality(ids)) :
        \A i, j \in 1..Len(l) : i # j => l[i].ID # l[j].ID}

\* errors of the orchestrator
ErrList == <<"connection", "refused">>
ErrUnknownTask == <<"unknown", "task", "name">>
StreamErrs ==
    {ErrUnknownTask,
     <<"rpc", "error:", "unknown", "task", "name", "given">>,
     <<"unknown", "task">>}

\* the bytes of one stream frame
Chunks == SeqsUpTo({"x", NL}, MaxChunkLen)

Streams == {"stdout", "stderr"}

\* -------------------------------------------------------------------- state
VARIABLES
    args,               \* tailCmd.Args()
    newClientOk,        \* whether nomad.NewClient succeeds
    mainPc,             \* main: "main", "Run", "exit"
    exitCode,           \* -1 while the process runs
    nomadTasks,         \* tailCommand.nomadTasks
    runNext,            \* Run: index of the next task of the for loop
    wg,                 \* Run: the WaitGroup counter
    drainPc,            \* per target, Run's goroutine: "none", "go", "range", "done"
    pollPc,             \* per watcher, poll: "off", "tick", "range", "Info"
    allocationList,     \* per watcher: the allocations poll has still to visit
    nPolls,             \* per watcher: ticks seen
    allocationsWatched, \* per watcher: jw.allocationsWatched
    mu,                 \* per watcher: jw.mu, 0 or the consumer holding it
    lines,              \* per watcher: the buffered channel of logLines
    closed,             \* per watcher: whether the channel is closed
    consumers,          \* the goroutines spawned by poll, in spawn order
    nFrames,            \* stream frames delivered so far
    stdout,             \* what was printed, in order: tail's logLines, ls's table
    diag,               \* the log package's output: a bag of messages
    noColor,            \* color.NoColor: whether the colour codes are left out
    lsList,             \* main, case "ls": the local list, the listing
    rows,               \* main, case "ls": the local rows
    fmtLine,            \* the receiver of a call of logLine.Format
    fmtResult           \* that call: not made yet, returned, or panicked

mainVars == <<args, newClientOk, mainPc, nomadTasks, runNext, wg>>
pollVars == <<pollPc, allocationList, nPolls>>
vars == <<args, newClientOk, mainPc, exitCode, nomadTasks, runNext, wg, drainPc,
          pollPc, allocationList, nPolls, allocationsWatched, mu, lines, closed,
          consumers, nFrames, stdout, diag, noColor, lsList, rows, fmtLine,
          fmtResult>>
toolVars == <<noColor, lsList, rows, fmtLine, fmtResult>>

W == 1..MaxArgs
Running == -1
Alive == exitCode = Running

jwJob(w) == nomadTasks[w].job
jwTask(w) == nomadTasks[w].task

Log(kind, a, b) == diag' = diag (+) SetToBag({<<kind, a, b>>})
Logged(kind, a, b) == CopiesIn(<<kind, a, b>>, diag)

\* logLine{job, allocation, line}; by and from record which consumer pushed
\* it and from which stream it came (history, never read by the program)
logLine(job, allocation, line, by, from) ==
    [job |-> job, allocation |-> allocation, line |-> line,
     by |-> by, from |-> from]

\* ------------------------------------------------------------------- Init
InitWatchers ==
    /\ drainPc = [w \in W |-> "none"]
    /\ pollPc = [w \in W |-> "off"]
    /\ allocationList = [w \in W |-> <<>>]
    /\ nPolls = [w \in W |-> 0]
    /\ allocationsWatched = [w \in W |-> {}]
    /\ mu = [w \in W |-> 0]
    /\ lines = [w \in W |-> <<>>]
    /\ closed = [w \in W |-> FALSE]
    /\ consumers = <<>>
    /\ nFrames = 0
    /\ stdout = <<>>
    /\ diag = EmptyBag

\* a call of Format: "call" before it, then "returned" with the string, or
\* "panic" with the runtime error
NotCalled == [pc |-> "call", text |-> <<>>]

\* the variables of "ls" and of a Format call, for a run that uses neither
InitTools ==
    /\ noColor = TRUE
    /\ lsList = <<>>
    /\ rows = <<>>
    /\ fmtLine = <<>>
    /\ fmtResult = NotCalled

\* main at the call of NewTailCommand, for the argument lists of A
InitMain(A) ==
    /\ args \in A
    /\ newClientOk \in BOOLEAN
    /\ mainPc = "main"
    /\ exitCode = Running
    /\ nomadTasks = <<>>
    /\ runNext = 1
    /\ wg = 0
    /\ InitWatchers
    /\ InitTools

\* ------------------------------------------------------------------- main
\* main, case "tail": NewTailCommand, and on an error the log line, the
\* usage text and os.Exit(1)
MainTail ==
    /\ Alive /\ mainPc = "main"
    /\ LET r == NewTailCommand(newClientOk, args) IN
       IF r.err # NoErr
       THEN /\ Log("NewTailCommand", r.err, <<>>)
            /\ mainPc' = "exit"
            /\ exitCode' = 1
            /\ UNCHANGED nomadTasks
       ELSE /\ nomadTasks' = r.nomadTasks
            /\ mainPc' = "Run"
            /\ UNCHANGED <<exitCode, diag>>
    /\ UNCHANGED <<args, newClientOk, toolVars, runNext, wg, drainPc, pollVars,
                   allocationsWatched, mu, lines, closed, consumers, nFrames,
                   stdout>>

\* tailCommand.Run: one iteration of the for loop (wg.Add(1); go func),
\* or, after the loop, wg.Wait returning, Run returning nil and main ending
Run ==
    /\ Alive /\ mainPc = "Run"
    /\ IF runNext <= Len(nomadTasks)
       THEN /\ wg' = wg + 1
            /\ drainPc' = [drainPc EXCEPT ![runNext] = "go"]
            /\ runNext' = runNext + 1
            /\ UNCHANGED <<mainPc, exitCode>>
       ELSE /\ wg = 0
            /\ mainPc' = "exit"
            /\ exitCode' = 0
            /\ UNCHANGED <<wg, drainPc, runNext>>
    /\ UNCHANGED <<args, newClientOk, toolVars, nomadTasks, pollVars, allocationsWatched,
                   mu, lines, closed, consumers, nFrames, stdout, diag>>

\* Run's goroutine for target w: NewWatcher and watcher.run, which makes
\* the channel and starts poll
RunWatcher(w) ==
    /\ Alive /\ drainPc[w] = "go"
    /\ drainPc' = [drainPc EXCEPT ![w] = "range"]
    /\ allocationsWatched' = [allocationsWatched EXCEPT ![w] = {}]
    /\ mu' = [mu EXCEPT ![w] = 0]
    /\ lines' = [lines EXCEPT ![w] = <<>>]
    /\ pollPc' = [pollPc EXCEPT ![w] = "tick"]
    /\ UNCHANGED <<mainVars, toolVars, exitCode, allocationList, nPolls, closed,
                   consumers, nFrames, stdout, diag>>

\* Run's goroutine for target w: one iteration of "for line := range lines"
\* (print the line), or the end of the loop on a closed and empty channel
Drain(w) ==
    /\ Alive /\ drainPc[w] = "range"
    /\ IF lines[w] # <<>>
       THEN /\ stdout' = Append(stdout, Head(lines[w]))
            /\ lines' = [lines EXCEPT ![w] = Tail(lines[w])]
            /\ UNCHANGED <<drainPc, wg>>
       ELSE /\ closed[w]
            /\ drainPc' = [drainPc EXCEPT ![w] = "done"]
            /\ wg' = wg - 1
            /\ UNCHANGED <<stdout, lines>>
    /\ UNCHANGED <<args, newClientOk, toolVars, mainPc, exitCode, nomadTasks, runNext,
                   pollVars, allocationsWatched, mu, closed, consumers, nFrames,
                   diag>>

\* ------------------------------------------------------------ watcher.poll
\* "continue" of the for loop over allocationList; after the last
\* allocation poll waits for the next tick
Continue(w) ==
    /\ allocationList' = [allocationList EXCEPT ![w] = Tail(allocationList[w])]
    /\ pollPc' = [pollPc EXCEPT
                    ![w] = IF Len(allocationList[w]) > 1 THEN "range" ELSE "tick"]

\* mutant of PollTick: a failed listing ends poll ("return" for "continue")
PollTickReturn(w, list, err) ==
    /\ Alive /\ pollPc[w] = "tick"
    /\ nPolls' = [nPolls EXCEPT ![w] = nPolls[w] + 1]
    /\ IF err # NoErr
       THEN /\ Log("could not list nomad allocations", <<>>, err)
            /\ pollPc' = [pollPc EXCEPT ![w] = "off"]
            /\ UNCHANGED allocationList
       ELSE /\ allocationList' = [allocationList EXCEPT ![w] = list]
            /\ pollPc' = [pollPc EXCEPT
                            ![w] = IF list # <<>> THEN "range" ELSE "tick"]
            /\ UNCHANGED diag
    /\ UNCHANGED <<mainVars, toolVars, exitCode, drainPc, allocationsWatched, mu, lines,
                   closed, consumers, nFrames, stdout>>

\* one tick of time.Tick and the call of Allocations().List, which returns
\* err or the list
PollTick(w, list, err) ==
    /\ Alive /\ pollPc[w] = "tick"
    /\ nPolls' = [nPolls EXCEPT ![w] = nPolls[w] + 1]
    /\ IF err # NoErr
       THEN /\ Log("could not list nomad allocations", <<>>, err)
            /\ UNCHANGED <<pollPc, allocationList>>
       ELSE /\ allocationList' = [allocationList EXCEPT ![w] = list]
            /\ pollPc' = [pollPc EXCEPT
                            ![w] = IF list # <<>> THEN "range" ELSE "tick"]
            /\ UNCHANGED diag
    /\ UNCHANGED <<mainVars, toolVars, exitCode, drainPc, allocationsWatched, mu, lines,
                   closed, consumers, nFrames, stdout>>

\* what the lookup jw.allocationsWatched[id] of poll can give: poll does not
\* take jw.mu, so while a consumer is inside its critical section the read
\* races with that consumer's write of the map
MapRead(w, id) ==
    IF mu[w] = 0 THEN {id \in allocationsWatched[w]} ELSE BOOLEAN

\* mutant of Skipped: the test of ClientStatus is missing
SkippedNoStatus(w, alloc, watched) ==
    \/ watched
    \/ nomadTasks[w].task \notin DOMAIN alloc.TaskStates
    \/ (nomadTasks[w].job # <<>> /\ nomadTasks[w].job # alloc.JobID)

\* the four tests of the loop body on the allocation alloc, watched being
\* the result of the map lookup: TRUE when the allocation is passed over
Skipped(w, alloc, watched) ==
    \/ watched
    \/ jwTask(w) \notin DOMAIN alloc.TaskStates
    \/ (jwJob(w) # <<>> /\ jwJob(w) # alloc.JobID)
    \/ alloc.ClientStatus # "running"

\* the loop body up to the call of Allocations().Info
PollRange(w, watched) ==
    /\ Alive /\ pollPc[w] = "range"
    /\ watched \in MapRead(w, Head(allocationList[w]).ID)
    /\ IF Skipped(w, Head(allocationList[w]), watched)
       THEN Continue(w)
       ELSE /\ pollPc' = [pollPc EXCEPT ![w] = "Info"]
            /\ UNCHANGED allocationList
    /\ UNCHANGED <<mainVars, toolVars, exitCode, drainPc, nPolls, allocationsWatched, mu,
                   lines, closed, consumers, nFrames, stdout, diag>>

\* the Go runtime detecting the unsynchronized map access of poll:
\* "fatal error: concurrent map read and map write", exit status 2
PollMapFault(w) ==
    /\ Alive /\ pollPc[w] = "range"
    /\ mu[w] # 0
    /\ exitCode' = 2
    /\ UNCHANGED <<mainVars, toolVars, drainPc, pollVars, allocationsWatched, mu, lines,
                   closed, consumers, nFrames, stdout, diag>>

\* the goroutine poll spawns for an allocation (before it has run): its
\* watcher, its allocation, its position, the lines of the current frame
\* still to push and their stream, the error received; frames and ended are
\* history: the frames received per stream and how watchAllocationLogs
\* ended ("no", "stdout closed", "stderr closed", "error")
Consumer(w, allocation) ==
    [w |-> w, allocation |-> allocation, pc |-> "go",
     todo |-> <<>>, from |-> "stdout", err |-> NoErr,
     frames |-> [s \in Streams |-> <<>>], ended |-> "no"]

\* mutant of PollInfo: a failed detail fetch ends the loop over the listing
\* ("break" for "continue")
PollInfoBreak(w, err) ==
    /\ Alive /\ pollPc[w] = "Info"
    /\ LET alloc == Head(allocationList[w]) IN
       IF err # NoErr
       THEN /\ Log("could not retrieve allocation", alloc.ID, <<>>)
            /\ allocationList' = [allocationList EXCEPT ![w] = <<>>]
            /\ pollPc' = [pollPc EXCEPT ![w] = "tick"]
            /\ UNCHANGED consumers
       ELSE /\ consumers' = Append(consumers,
                   Consumer(w, [ID |-> alloc.ID, JobID |-> alloc.JobID]))
            /\ Continue(w)
            /\ UNCHANGED diag
    /\ UNCHANGED <<mainVars, toolVars, exitCode, drainPc, nPolls, allocationsWatched, mu,
                   lines, closed, nFrames, stdout>>

\* Allocations().Info for the allocation at hand; on an error the log line
\* and continue, else "go func(allocation)"
PollInfo(w, err) ==
    /\ Alive /\ pollPc[w] = "Info"
    /\ LET alloc == Head(allocationList[w]) IN
       IF err # NoErr
       THEN /\ Log("could not retrieve allocation", alloc.ID, <<>>)
            /\ UNCHANGED consumers
       ELSE /\ consumers' = Append(consumers,
                   Consumer(w, [ID |-> alloc.ID, JobID |-> alloc.JobID]))
            /\ UNCHANGED diag
    /\ Continue(w)
    /\ UNCHANGED <<mainVars, toolVars, exitCode, drainPc, nPolls, allocationsWatched, mu,
                   lines, closed, nFrames, stdout>>

\* ------------------------------------------------- the goroutine of poll
C == 1..Len(consumers)
IdOf(c) == consumers[c].allocation.ID
At(c, pc) == consumers[c].pc = pc

\* jw.mu.Lock(), before the add and before the delete
Lock(c) ==
    /\ Alive /\ c \in C
    /\ consumers[c].pc \in {"go", "returned"}
    /\ mu[consumers[c].w] = 0
    /\ mu' = [mu EXCEPT ![consumers[c].w] = c]
    /\ consumers' = [consumers EXCEPT
                       ![c].pc = IF At(c, "go") THEN "add" ELSE "delete"]
    /\ UNCHANGED <<mainVars, toolVars, exitCode, drainPc, pollVars, allocationsWatched,
                   lines, closed, nFrames, stdout, diag>>

\* mutant of Add: the mutex stays locked while watchAllocationLogs runs
AddKeepsLock(c) ==
    /\ Alive /\ c \in 1..Len(consumers) /\ consumers[c].pc = "add"
    /\ allocationsWatched' = [allocationsWatched EXCEPT
                                ![consumers[c].w] = @ \cup {consumers[c].allocation.ID}]
    /\ consumers' = [consumers EXCEPT ![c].pc = "select"]
    /\ UNCHANGED <<mainVars, toolVars, exitCode, drainPc, pollVars, lines, closed,
                   mu, nFrames, stdout, diag>>

\* jw.allocationsWatched[allocation.ID] = struct{}{}; jw.mu.Unlock(); then
\* watchAllocationLogs opens the two streams and enters its select
Add(c) ==
    /\ Alive /\ c \in C /\ At(c, "add")
    /\ allocationsWatched' = [allocationsWatched EXCEPT
                                ![consumers[c].w] = @ \cup {IdOf(c)}]
    /\ mu' = [mu EXCEPT ![consumers[c].w] = 0]
    /\ consumers' = [consumers EXCEPT ![c].pc = "select"]
    /\ UNCHANGED <<mainVars, toolVars, exitCode, drainPc, pollVars, lines, closed,
                   nFrames, stdout, diag>>

\* mutant of Delete: the goroutine ends without the delete
DeleteKeepsId(c) ==
    /\ Alive /\ c \in 1..Len(consumers) /\ consumers[c].pc = "delete"
    /\ mu' = [mu EXCEPT ![consumers[c].w] = 0]
    /\ consumers' = [consumers EXCEPT
           ![c].pc = "done", ![c].from = "stdout", ![c].err = NoErr]
    /\ UNCHANGED <<mainVars, toolVars, exitCode, drainPc, pollVars, lines, closed,
                   allocationsWatched, nFrames, stdout, diag>>

\* mutant of Delete: the goroutine that empties the map closes the channel
DeleteCloses(c) ==
    /\ Alive /\ c \in 1..Len(consumers) /\ consumers[c].pc = "delete"
    /\ allocationsWatched' = [allocationsWatched EXCEPT
                                ![consumers[c].w] = @ \ {consumers[c].allocation.ID}]
    /\ mu' = [mu EXCEPT ![consumers[c].w] = 0]
    /\ closed' = [closed EXCEPT
                    ![consumers[c].w] = allocationsWatched'[consumers[c].w] = {}]
    /\ consumers' = [consumers EXCEPT
           ![c].pc = "done", ![c].from = "stdout", ![c].err = NoErr]
    /\ UNCHANGED <<mainVars, toolVars, exitCode, drainPc, pollVars, lines,
                   nFrames, stdout, diag>>

\* delete(jw.allocationsWatched, allocation.ID); jw.mu.Unlock(); the
\* goroutine ends
Delete(c) ==
    /\ Alive /\ c \in C /\ At(c, "delete")
    /\ allocationsWatched' = [allocationsWatched EXCEPT
                                ![consumers[c].w] = @ \ {IdOf(c)}]
    /\ mu' = [mu EXCEPT ![consumers[c].w] = 0]
    /\ consumers' = [consumers EXCEPT
           ![c].pc = "done", ![c].from = "stdout", ![c].err = NoErr]
    /\ UNCHANGED <<mainVars, toolVars, exitCode, drainPc, pollVars, lines, closed,
                   nFrames, stdout, diag>>

\* ----------------------------------------------- watcher.watchAllocationLogs
\* mutant of FrameLines: the empty fragments are pushed too
FrameLinesKeepEmpty(data) == Split(data, NL)

\* the lines pushed for one frame: the loop over strings.Split(data, "\n")
\* that passes over the empty strings
FrameLines(data) == SelectSeq(Split(data, NL), LAMBDA line : line # <<>>)

\* mutant of ClosedLine: the stderr case pushes the stdout text
ClosedLineStdoutOnly(s) == <<"stdoutFrames closed!">>

\* the line pushed when a frames channel is closed
ClosedLine(s) ==
    IF s = "stdout" THEN <<"stdoutFrames closed!">> ELSE <<"stderrFrames closed!">>

\* mutant of CanSend: a send never blocks (a channel without a capacity)
CanSendAlways(w) == Len(lines[w]) >= 0

\* whether lines <- x can proceed on the channel of watcher w
CanSend(w) == Len(lines[w]) < LinesCap

\* select: a frame with the bytes data arrives on stream s
Frame(c, s, data) ==
    /\ Alive /\ c \in C /\ At(c, "select")
    /\ nFrames' = nFrames + 1
    /\ consumers' = [consumers EXCEPT
           ![c].frames[s] = Append(@, data),
           ![c].todo = FrameLines(data),
           ![c].from = s,
           ![c].pc = IF FrameLines(data) # <<>> THEN "push" ELSE "select"]
    /\ UNCHANGED <<mainVars, toolVars, exitCode, drainPc, pollVars, allocationsWatched,
                   mu, lines, closed, stdout, diag>>

\* lines <- logLine{jw.job, allocation, line} for the next line of the
\* frame; blocks while the buffer is full
Push(c) ==
    /\ Alive /\ c \in C /\ At(c, "push")
    /\ CanSend(consumers[c].w)
    /\ lines' = [lines EXCEPT ![consumers[c].w] =
           Append(@, logLine(jwJob(consumers[c].w), consumers[c].allocation,
                             Head(consumers[c].todo), c, consumers[c].from))]
    /\ consumers' = [consumers EXCEPT
           ![c].todo = Tail(@),
           ![c].pc = IF Len(consumers[c].todo) > 1 THEN "push" ELSE "select"]
    /\ UNCHANGED <<mainVars, toolVars, exitCode, drainPc, pollVars, allocationsWatched,
                   mu, closed, nFrames, stdout, diag>>

\* select: the frames channel of stream s is closed (more is false)
FramesClosed(c, s) ==
    /\ Alive /\ c \in C /\ At(c, "select")
    /\ consumers' = [consumers EXCEPT
           ![c].todo = <<ClosedLine(s)>>, ![c].from = "closed", ![c].pc = "last",
           ![c].ended = IF s = "stdout" THEN "stdout closed" ELSE "stderr closed"]
    /\ UNCHANGED <<mainVars, toolVars, exitCode, drainPc, pollVars, allocationsWatched,
                   mu, lines, closed, nFrames, stdout, diag>>

\* lines <- logLine{jw.job, allocation, "... closed!"}; return nil
PushClosed(c) ==
    /\ Alive /\ c \in C /\ At(c, "last")
    /\ CanSend(consumers[c].w)
    /\ lines' = [lines EXCEPT ![consumers[c].w] =
           Append(@, logLine(jwJob(consumers[c].w), consumers[c].allocation,
                             Head(consumers[c].todo), c, consumers[c].from))]
    /\ consumers' = [consumers EXCEPT ![c].todo = <<>>, ![c].pc = "returned"]
    /\ UNCHANGED <<mainVars, toolVars, exitCode, drainPc, pollVars, allocationsWatched,
                   mu, closed, nFrames, stdout, diag>>

\* mutant of StreamErr: the message is compared for equality
StreamErrExact(c, s, err) ==
    /\ Alive /\ c \in C /\ At(c, "select")
    /\ consumers' = [consumers EXCEPT
           ![c].err = err, ![c].pc = "returned", ![c].ended = "error"]
    /\ IF err = ErrUnknownTask
       THEN UNCHANGED diag
       ELSE Log("got error (allocation probably shutting down)",
                jwJob(consumers[c].w), err)
    /\ UNCHANGED <<mainVars, toolVars, exitCode, drainPc, pollVars, allocationsWatched,
                   mu, lines, closed, nFrames, stdout>>

\* select: the error channel of stream s delivers err; return nil, after
\* the log line unless the message contains "unknown task name"
StreamErr(c, s, err) ==
    /\ Alive /\ c \in C /\ At(c, "select")
    /\ consumers' = [consumers EXCEPT
           ![c].err = err, ![c].pc = "returned", ![c].ended = "error"]
    /\ IF Contains(err, ErrUnknownTask)
       THEN UNCHANGED diag
       ELSE Log("got error (allocation probably shutting down)",
                jwJob(consumers[c].w), err)
    /\ UNCHANGED <<mainVars, toolVars, exitCode, drainPc, pollVars, allocationsWatched,
                   mu, lines, closed, nFrames, stdout>>

\* ----------------------------------------------------- colours and times
\* fatih/color: the text between the escape codes, or bare with NoColor
Colored(code, text) ==
    IF noColor THEN text ELSE <<code>> \o text \o <<"ESC[0m">>
CyanString(text) == Colored("ESC[36m", text)
GreenString(text) == Colored("ESC[32m", text)
RedString(text) == Colored("ESC[31m", text)

\* a time.Time: the wall clock reading and the zone offset it was read with
ZeroTime == [clock |-> "0001-01-01T00:00:00", zone |-> "Z"]
RestartTime == [clock |-> "2023-01-01T02:00:00", zone |-> "+02:00"]
IsZero(t) == t = ZeroTime
\* Time.Format("2006-01-02T15:04:05Z"): the clock and a literal Z, whatever
\* the zone is
FormatClockZ(t) == <<t.clock, "Z">>
\* Time.Format("2006-01-02T15:04:05")
FormatClock(t) == <<t.clock>>

\* s[:8]: the first eight characters, or the runtime panic on a shorter s
IdPrefix == 8
CanSlice(s) == Len(s) >= IdPrefix
Slice(s) == SubSeq(s, 1, IdPrefix)
ErrSlice == <<"runtime error: slice bounds out of range">>

\* an allocation ID of n characters
IdOfLen(n) == [i \in 1..n |-> "f"]

\* ---------------------------------------------------------- logLine.Format
\* a raw line is a sequence of lexical pieces: braces, commas and members
LBrace == "{"
RBrace == "}"
Comma == ","
LevelInfo == "\"level\":\"info\""
MessageHi == "\"message\":\"hi\""
TimeOffset == "\"time\":\"2023-01-01T02:00:00+02:00\""
TimeBad == "\"time\":\"yesterday\""
JsonMembers == {LevelInfo, MessageHi, TimeOffset, TimeBad}
JsonPieces == {LBrace, RBrace, Comma} \cup JsonMembers

\* the zero value of the struct parsed
ZeroParsed == [Level |-> <<>>, Time |-> ZeroTime, Message |-> <<>>]

\* one member decoded into the struct; time.Time's UnmarshalJSON fails on
\* a text that is not RFC 3339
SetMember(parsed, m) ==
    CASE m = LevelInfo -> [parsed EXCEPT !.Level = <<"info">>]
      [] m = MessageHi -> [parsed EXCEPT !.Message = <<"hi">>]
      [] m = TimeOffset -> [parsed EXCEPT !.Time = RestartTime]
      [] OTHER -> parsed

RECURSIVE SetMembers(_, _, _)
SetMembers(inner, k, parsed) ==
    IF k > Len(inner) THEN parsed
    ELSE SetMembers(inner, k + 2, SetMember(parsed, inner[k]))

\* json.Unmarshal([]byte(line.line), &parsed): a syntax error unless the
\* text is an object of members separated by commas, and a decoding
\* error on a member that does not fit its field
Unmarshal(raw) ==
    LET inner == SubSeq(raw, 2, Len(raw) - 1)
        valid == /\ Len(raw) >= 2
                 /\ raw[1] = LBrace
                 /\ raw[Len(raw)] = RBrace
                 /\ (inner = <<>> \/ Len(inner) % 2 = 1)
                 /\ \A k \in 1..Len(inner) :
                       IF k % 2 = 1 THEN inner[k] \in JsonMembers
                                    ELSE inner[k] = Comma
    IN  IF ~valid
        THEN [err |-> <<"invalid character">>, parsed |-> ZeroParsed]
        ELSE IF \E k \in 1..Len(inner) : inner[k] = TimeBad
        THEN [err |-> <<"parsing time">>, parsed |-> ZeroParsed]
        ELSE [err |-> NoErr, parsed |-> SetMembers(inner, 1, ZeroParsed)]

\* the body of Format; line.allocation.ID[:8] is evaluated before Sprintf
Format(line) ==
    LET r == Unmarshal(line.line)
        formatted ==
            IF r.err = NoErr
            THEN <<"[">> \o FormatClockZ(r.parsed.Time) \o <<"] [">>
                 \o r.parsed.Level \o <<"] ">> \o r.parsed.Message
            ELSE line.line
    IN  IF ~CanSlice(line.allocation.ID)
        THEN [pc |-> "panic", text |-> ErrSlice]
        ELSE [pc |-> "returned",
              text |-> CyanString(line.allocation.Job.Name) \o <<"(">>
                       \o GreenString(Slice(line.allocation.ID))
                       \o <<"): ">> \o formatted]

\* one call of Format on the receiver fmtLine
FormatCall ==
    /\ fmtResult.pc = "call"
    /\ fmtResult' = Format(fmtLine)
    /\ UNCHANGED <<mainVars, exitCode, drainPc, pollVars, allocationsWatched,
                   mu, lines, closed, consumers, nFrames, stdout, diag,
                   noColor, lsList, rows, fmtLine>>

\* ------------------------------------------------------- main, case "ls"
\* what the orchestrator lists: job and task names whose concatenations
\* collide ("a" + "bc" and "ab" + "c"), IDs of eight characters and more
LsJobs == {<<"a">>, <<"a", "b">>}
LsTasks == {<<"c">>, <<"b", "c">>}
LsTaskStates ==
    {[State |-> <<"running">>, LastRestart |-> ZeroTime],
     [State |-> <<"dead">>, LastRestart |-> RestartTime],
     [State |-> <<"pending">>, LastRestart |-> ZeroTime]}
LsTaskStateMaps == UNION {[ts -> LsTaskStates] : ts \in SUBSET LsTasks}
LsListings ==
    UNION {{l \in [1..n -> [ID : {IdOfLen(IdPrefix + k) : k \in 0..(n - 1)},
                            JobID : LsJobs,
                            TaskGroup : {<<"g">>},
                            TaskStates : LsTaskStateMaps]] :
               \A k \in 1..n : l[k].ID = IdOfLen(IdPrefix + k - 1)} :
           n \in 0..MaxLsAllocs}

row(allocationId, jobId, task, state, taskGroup, lastRestart) ==
    [allocationId |-> allocationId, jobId |-> jobId, task |-> task,
     state |-> state, taskGroup |-> taskGroup, lastRestart |-> lastRestart]

\* the orders in which a range over a Go map may visit its keys
Perms(S) ==
    {p \in [1..Cardinality(S) -> S] :
        \A i, j \in 1..Cardinality(S) : p[i] = p[j] => i = j}

\* the rows the inner loop appends for one allocation, in every map order
RowsOfAllocation(allocation) ==
    {[i \in 1..Len(p) |->
         row(allocation.ID, allocation.JobID, p[i],
             allocation.TaskStates[p[i]].State, allocation.TaskGroup,
             allocation.TaskStates[p[i]].LastRestart)] :
     p \in Perms(DOMAIN allocation.TaskStates)}

RECURSIVE RowsOf(_)
RowsOf(l) ==
    IF l = <<>> THEN {<<>>}
    ELSE {h \o t : h \in RowsOfAllocation(Head(l)), t \in RowsOf(Tail(l))}

\* a byte of a Go string
Byte(ch) == CASE ch = "a" -> 97 [] ch = "b" -> 98 [] ch = "c" -> 99

\* strI < strJ on Go strings: bytewise lexicographic
RECURSIVE StrLess(_, _)
StrLess(a, b) ==
    IF b = <<>> THEN FALSE
    ELSE IF a = <<>> THEN TRUE
    ELSE IF Head(a) = Head(b) THEN StrLess(Tail(a), Tail(b))
    ELSE Byte(Head(a)) < Byte(Head(b))

\* the less function handed to sort.SliceStable
Less(ri, rj) == StrLess(ri.jobId \o ri.task, rj.jobId \o rj.task)

Front(s) == SubSeq(s, 1, Len(s) - 1)
Last(s) == s[Len(s)]

\* mutant of InsertRow: the row also moves left past rows equal to it
RECURSIVE InsertRowPastEqual(_, _)
InsertRowPastEqual(s, r) ==
    IF s = <<>> \/ Less(Last(s), r) THEN Append(s, r)
    ELSE Append(InsertRowPastEqual(Front(s), r), Last(s))

\* the inner loop of the insertion sort behind sort.SliceStable: the new
\* row moves left while it is less than the row before it
RECURSIVE InsertRow(_, _)
InsertRow(s, r) ==
    IF s = <<>> \/ ~Less(r, Last(s)) THEN Append(s, r)
    ELSE Append(InsertRow(Front(s), r), Last(s))

RECURSIVE SliceStable(_)
SliceStable(s) ==
    IF s = <<>> THEN <<>> ELSE InsertRow(SliceStable(Front(s)), Last(s))

\* the header and one rendered line of the table
LsHeader == <<"Allocation", "Job ID", "Task", "State", "Last Restart">>
TableLine(r) ==
    <<Slice(r.allocationId), r.jobId, r.task,
      IF r.state = <<"running">> THEN GreenString(r.state)
      ELSE IF r.state = <<"dead">> THEN RedString(r.state)
      ELSE r.state,
      IF IsZero(r.lastRestart) THEN <<>> ELSE FormatClock(r.lastRestart)>>

\* nomad.NewClient and Allocations().List; log.Fatalf on an error
LsList(l, err) ==
    /\ Alive /\ mainPc = "ls"
    /\ IF ~newClientOk
       THEN /\ Log("could not create nomad client", ErrNewClient, <<>>)
            /\ mainPc' = "exit"
            /\ exitCode' = 1
            /\ UNCHANGED lsList
       ELSE IF err # NoErr
       THEN /\ Log("could not get allocations", err, <<>>)
            /\ mainPc' = "exit"
            /\ exitCode' = 1
            /\ UNCHANGED lsList
       ELSE /\ lsList' = l
            /\ mainPc' = "rows"
            /\ UNCHANGED <<exitCode, diag>>
    /\ UNCHANGED <<args, newClientOk, nomadTasks, runNext, wg, drainPc,
                   pollVars, allocationsWatched, mu, lines, closed, consumers,
                   nFrames, stdout, noColor, rows, fmtLine, fmtResult>>

\* the two nested loops that build rows
LsRows ==
    /\ Alive /\ mainPc = "rows"
    /\ rows' \in RowsOf(lsList)
    /\ mainPc' = "sort"
    /\ UNCHANGED <<args, newClientOk, nomadTasks, runNext, wg, exitCode,
                   drainPc, pollVars, allocationsWatched, mu, lines, closed,
                   consumers, nFrames, stdout, diag, noColor, lsList, fmtLine,
                   fmtResult>>

\* sort.SliceStable(rows, ...), in place
LsSort ==
    /\ Alive /\ mainPc = "sort"
    /\ rows' = SliceStable(rows)
    /\ mainPc' = "table"
    /\ UNCHANGED <<args, newClientOk, nomadTasks, runNext, wg, exitCode,
                   drainPc, pollVars, allocationsWatched, mu, lines, closed,
                   consumers, nFrames, stdout, diag, noColor, lsList, fmtLine,
                   fmtResult>>

\* the table: header, one Append per row, Render; a panic of the slice
\* in the loop ends the process before anything is rendered
LsTable ==
    /\ Alive /\ mainPc = "table"
    /\ mainPc' = "exit"
    /\ IF \E i \in 1..Len(rows) : ~CanSlice(rows[i].allocationId)
       THEN /\ exitCode' = 2
            /\ UNCHANGED stdout
       ELSE /\ exitCode' = 0
            /\ stdout' = stdout \o <<LsHeader>>
                         \o [i \in 1..Len(rows) |-> TableLine(rows[i])]
    /\ UNCHANGED <<args, newClientOk, nomadTasks, runNext, wg, drainPc,
                   pollVars, allocationsWatched, mu, lines, closed, consumers,
                   nFrames, diag, noColor, lsList, rows, fmtLine, fmtResult>>


\* ------------------------------------------------------------ specifications
ErrInfo == <<"allocation", "not", "found">>

Budget(polls, spawned, frames) ==
    [polls |-> polls, spawned |-> spawned, frames |-> frames]

\* one step of the program, the orchestrator answering with a listing of
\* L, a stream error of E or a frame of D, within the budget B of ticks,
\* spawned goroutines and frames
Step(L, E, D, B) ==
    \/ MainTail
    \/ Run
    \/ \E w \in W : RunWatcher(w)
    \/ \E w \in W : Drain(w)
    \/ \E w \in W : \E list \in L :
          nPolls[w] < B.polls /\ PollTick(w, list, NoErr)
    \/ \E w \in W : nPolls[w] < B.polls /\ PollTick(w, <<>>, ErrList)
    \/ \E w \in W : \E watched \in BOOLEAN : PollRange(w, watched)
    \/ \E w \in W : PollMapFault(w)
    \/ \E w \in W : Len(consumers) < B.spawned /\ PollInfo(w, NoErr)
    \/ \E w \in W : PollInfo(w, ErrInfo)
    \/ \E c \in C : Lock(c)
    \/ \E c \in C : Add(c)
    \/ \E c \in C : Delete(c)
    \/ \E c \in C : \E s \in Streams : \E data \in D :
          nFrames < B.frames /\ Frame(c, s, data)
    \/ \E c \in C : Push(c)
    \/ \E c \in C : \E s \in Streams : FramesClosed(c, s)
    \/ \E c \in C : PushClosed(c)
    \/ \E c \in C : \E s \in Streams : \E err \in E : StreamErr(c, s, err)

Good(id) ==
    [ID |-> id, JobID |-> Web, ClientStatus |-> "running",
     TaskStates |-> [t \in {App} |-> "running"]]

\* "tail a" and "tail w:a" against a cluster of two allocations
WatchArgs == {<<App>>, <<Web \o <<Colon>> \o App>>}
InitWatch == InitMain(WatchArgs)
WatchListings == Listings({Id1}) \cup {<<Good(Id1), Good(Id2)>>}
NextWatch ==
    Step(WatchListings, StreamErrs, {<<"x">>},
         Budget(WatchPolls, WatchConsumers, WatchFrames))
SpecWatch == InitWatch /\ [][NextWatch]_vars

\* "tail a" against two running allocations of the task, frames of every
\* content
StreamArgs == {<<App>>}
InitStream == InitMain(StreamArgs)
StreamListings == {<<Good(Id1), Good(Id2)>>}
NextStream ==
    Step(StreamListings, {<<"unknown", "task">>}, Chunks,
         Budget(StreamPolls, StreamConsumers, StreamFrames))
SpecStream == InitStream /\ [][NextStream]_vars

\* "tail a" and "tail a w:a": one watcher and two watchers
TailArgs == {<<App>>, <<App, Web \o <<Colon>> \o App>>}
Init == InitMain(TailArgs)
Next ==
    Step({<<Good(Id1), Good(Id2)>>}, {<<"unknown", "task">>}, {<<"x">>},
         Budget(TailPolls, TailConsumers, TailFrames))
Spec == Init /\ [][Next]_vars

\* main from every argument list up to the start of the watchers
InitMainArgs == InitMain(ArgLists)
NextMain == MainTail \/ Run \/ \E w \in W : RunWatcher(w)
SpecMain == InitMainArgs /\ [][NextMain]_vars

\* "nomadlogs ls": main at case "ls"
InitLs ==
    /\ args = <<>>
    /\ newClientOk \in BOOLEAN
    /\ mainPc = "ls"
    /\ exitCode = Running
    /\ nomadTasks = <<>>
    /\ runNext = 1
    /\ wg = 0
    /\ InitWatchers
    /\ noColor \in BOOLEAN
    /\ lsList = <<>>
    /\ rows = <<>>
    /\ fmtLine = <<>>
    /\ fmtResult = NotCalled
NextLs ==
    \/ \E l \in LsListings : LsList(l, NoErr)
    \/ LsList(<<>>, ErrList)
    \/ LsRows
    \/ LsSort
    \/ LsTable
SpecLs == InitLs /\ [][NextLs]_vars

\* logLine.Format on the lines of FmtLines
RawLines == SeqsUpTo(JsonPieces, MaxRawLen)
FmtLines ==
    {[job |-> Web,
      allocation |-> [ID |-> IdOfLen(n), Job |-> [Name |-> Web]],
      line |-> raw] :
     n \in (IdPrefix - 1)..MaxIdLen, raw \in RawLines}
InitFormat ==
    /\ args = <<>>
    /\ newClientOk = TRUE
    /\ mainPc = "Run"
    /\ exitCode = Running
    /\ nomadTasks = <<>>
    /\ runNext = 1
    /\ wg = 0
    /\ InitWatchers
    /\ noColor \in BOOLEAN
    /\ lsList = <<>>
    /\ rows = <<>>
    /\ fmtLine \in FmtLines
    /\ fmtResult = NotCalled
NextFormat == FormatCall
SpecFormat == InitFormat /\ [][NextFormat]_vars


\* ------------------------------------------------------------ the claims
AllocIds == {Id1, Id2}
WatcherOf(c) == consumers[c].w

\* the consumer is inside watchAllocationLogs
Streaming(c) == consumers[c].pc \in {"select", "push", "last"}
\* watchAllocationLogs has returned
Returned(c) == consumers[c].pc \in {"returned", "delete", "done"}

\* C1: for every watcher and allocation ID at most one goroutine spawned
\* by poll is inside watchAllocationLogs for that ID.
C1_AtMostOneConsumer ==
    \A w \in W : \A id \in AllocIds :
        Cardinality({c \in C : WatcherOf(c) = w /\ IdOf(c) = id /\ Streaming(c)}) <= 1

\* the selection condition as the specification states it
Match(w, alloc) ==
    /\ jwTask(w) \in DOMAIN alloc.TaskStates
    /\ (jwJob(w) = <<>> \/ jwJob(w) = alloc.JobID)
    /\ alloc.ClientStatus = "running"

\* poll runs the loop body for the allocation at the head of its list
Examined(w) ==
    /\ pollPc[w] = "range"
    /\ (pollPc'[w] = "Info" \/ allocationList'[w] # allocationList[w])

\* C2 as stated: an allocation of the listing is selected (poll goes on to
\* fetch its detail) if and only if it has the task, passes the job filter
\* and is running.  Stated for the lookups that race with no write of the
\* map, where the claim still fails.
C2_SelectedIffMatch ==
    [][\A w \in W :
         (Examined(w) /\ mu[w] = 0) =>
            ((pollPc'[w] = "Info") <=> Match(w, Head(allocationList[w])))]_vars

\* C2 amended: poll selects an allocation only if it matches; when the
\* lookup races with no write of the map it selects exactly the matching
\* allocations whose ID is not in allocationsWatched; and a consumer is
\* started exactly when the detail fetch of a selected allocation succeeds.
C2_SelectedIffMatchAndNotWatched ==
    [][/\ \A w \in W :
            Examined(w) =>
               LET alloc == Head(allocationList[w]) IN
               /\ (pollPc'[w] = "Info") => Match(w, alloc)
               /\ mu[w] = 0 =>
                     ((pollPc'[w] = "Info") <=>
                        (Match(w, alloc) /\ alloc.ID \notin allocationsWatched[w]))
       /\ consumers' # consumers /\ Len(consumers') # Len(consumers) =>
            \E w \in W :
               /\ pollPc[w] = "Info"
               /\ Match(w, Head(allocationList[w]))
               /\ Len(consumers') = Len(consumers) + 1
               /\ SubSeq(consumers', 1, Len(consumers)) = consumers
               /\ consumers'[Len(consumers')].w = w
               /\ consumers'[Len(consumers')].allocation.ID = Head(allocationList[w]).ID
               /\ consumers'[Len(consumers')].pc = "go"
               /\ diag' = diag
       /\ \A w \in W :
            (pollPc[w] = "Info" /\ pollPc'[w] # "Info" /\ diag' = diag) =>
               Len(consumers') = Len(consumers) + 1]_vars

\* a matching allocation is passed over because it is already watched, and
\* another one is selected
C2_Witness ==
    \E w \in W :
        /\ pollPc[w] = "Info"
        /\ allocationsWatched[w] # {}
        /\ Head(allocationList[w]).ID \notin allocationsWatched[w]
        /\ nPolls[w] > 1

\* the non-empty newline-separated fragments of a chunk: its maximal runs
\* of characters other than the newline, from left to right
RunStart(d, i) == d[i] # NL /\ (i = 1 \/ d[i - 1] = NL)
RunEnd(d, i) ==
    CHOOSE j \in i..Len(d) :
        /\ \A k \in i..j : d[k] # NL
        /\ (j = Len(d) \/ d[j + 1] = NL)
RECURSIVE FragmentsFrom(_, _)
FragmentsFrom(d, i) ==
    IF i > Len(d) THEN <<>>
    ELSE IF RunStart(d, i)
    THEN <<SubSeq(d, i, RunEnd(d, i))>> \o FragmentsFrom(d, i + 1)
    ELSE FragmentsFrom(d, i + 1)
RECURSIVE FragmentsOfAll(_)
FragmentsOfAll(chunks) ==
    IF chunks = <<>> THEN <<>>
    ELSE FragmentsFrom(Head(chunks), 1) \o FragmentsOfAll(Tail(chunks))

\* the logLines of the queue q pushed by consumer c from stream s
PushedFrom(q, c, s) == SelectSeq(q, LAMBDA l : l.by = c /\ l.from = s)
Texts(q) == [i \in 1..Len(q) |-> q[i].line]

PushedBy(c) ==
    SelectSeq(stdout \o lines[WatcherOf(c)], LAMBDA l : l.by = c)
Sentinels(c) == SelectSeq(PushedBy(c), LAMBDA l : l.from = "closed")

\* C4 as stated: whenever watchAllocationLogs has returned, the last line
\* the consumer pushed is the sentinel.
C4_SentinelOnEveryEnd ==
    \A c \in C :
        Returned(c) =>
            /\ PushedBy(c) # <<>>
            /\ PushedBy(c)[Len(PushedBy(c))].from = "closed"

\* C4 amended: a consumer that ended on a closed frames channel has pushed
\* exactly one sentinel, "stdoutFrames closed!" or "stderrFrames closed!"
\* after the stream, as its last line; a consumer that ended on a terminal
\* error, or has not ended, has pushed none.
C4_SentinelOnCloseOnly ==
    \A c \in C :
        IF Returned(c) /\ consumers[c].ended \in {"stdout closed", "stderr closed"}
        THEN /\ Len(Sentinels(c)) = 1
             /\ PushedBy(c)[Len(PushedBy(c))].from = "closed"
             /\ PushedBy(c)[Len(PushedBy(c))].allocation = consumers[c].allocation
             /\ PushedBy(c)[Len(PushedBy(c))].line =
                   IF consumers[c].ended = "stdout closed"
                   THEN <<"stdoutFrames closed!">>
                   ELSE <<"stderrFrames closed!">>
        ELSE Sentinels(c) = <<>>

\* one consumer ended on a closed stderr channel after pushing a line of a
\* frame, another ended on a terminal error
C4_Witness ==
    \E c, d \in C :
        /\ Returned(c) /\ consumers[c].ended = "stderr closed"
        /\ Len(PushedBy(c)) >= 2
        /\ Returned(d) /\ consumers[d].ended = "error"

\* consumer c takes a step of its termination after a terminal error
ErrorEnding(c) ==
    /\ consumers'[c] # consumers[c]
    /\ consumers'[c].ended = "error"

\* C5: while a consumer terminates after a terminal error, every other
\* consumer inside watchAllocationLogs is left as it is, the membership of
\* its ID in allocationsWatched included, and so is poll.
C5_OnlyThatConsumerEnds ==
    [][\A c \in C :
         ErrorEnding(c) =>
            /\ \A d \in C \ {c} :
                  Streaming(d) =>
                     /\ consumers'[d] = consumers[d]
                     /\ (IdOf(d) \in allocationsWatched[WatcherOf(d)]
                           <=> IdOf(d) \in allocationsWatched'[WatcherOf(d)])
            /\ pollVars' = pollVars]_vars

\* the message contains "unknown task name"
MentionsUnknownTaskName(e) ==
    \E i \in 1..Len(e) :
        i + 2 <= Len(e) /\ e[i] = "unknown" /\ e[i + 1] = "task" /\ e[i + 2] = "name"

\* consumer c receives a terminal error in this step
GetsError(c) == consumers[c].pc = "select" /\ consumers'[c].ended = "error"

\* C6: a consumer that receives an error mentioning "unknown task name"
\* returns without a log line, on any other error with exactly one failure
\* line more; after the return its only steps are the lock and the delete,
\* which log nothing, the delete leaves its ID out of allocationsWatched,
\* and no consumer ends any other way.
C6_UnknownTaskNameIsSilent ==
    [][\A c \in C :
         /\ GetsError(c) =>
               /\ consumers'[c].pc = "returned"
               /\ IF MentionsUnknownTaskName(consumers'[c].err)
                  THEN diag' = diag
                  ELSE diag' = diag (+) SetToBag(
                          {<<"got error (allocation probably shutting down)",
                             jwJob(WatcherOf(c)), consumers'[c].err>>})
         /\ (consumers[c].pc = "returned" /\ consumers'[c] # consumers[c]) =>
               /\ consumers'[c].pc = "delete" /\ diag' = diag
         /\ (consumers[c].pc = "delete" /\ consumers'[c] # consumers[c]) =>
               /\ consumers'[c].pc = "done" /\ diag' = diag
               /\ IdOf(c) \notin allocationsWatched'[WatcherOf(c)]
         /\ consumers'[c].pc = "done" => consumers[c].pc \in {"delete", "done"}]_vars

\* a consumer has ended on an error, nothing was logged and its ID is out
\* of allocationsWatched
C6_Witness ==
    \E c \in C :
        /\ consumers[c].pc = "done" /\ consumers[c].ended = "error"
        /\ diag = EmptyBag
        /\ IdOf(c) \notin allocationsWatched[WatcherOf(c)]

\* the tick of watcher w ends in a failed listing
ListFails(w) == nPolls'[w] = nPolls[w] + 1 /\ diag' # diag

\* C7: a tick whose listing fails logs the failure and changes nothing
\* else: no consumer is started or changed, allocationsWatched and the
\* channels are as before, the process runs on and poll is back waiting
\* for the next tick.
C7_ListFailureIsRecovered ==
    [][\A w \in W :
         ListFails(w) =>
            /\ consumers' = consumers
            /\ allocationsWatched' = allocationsWatched
            /\ lines' = lines /\ closed' = closed
            /\ exitCode' = Running
            /\ pollPc'[w] = "tick"
            /\ allocationList' = allocationList
            /\ diag' = diag (+) SetToBag(
                  {<<"could not list nomad allocations", <<>>, ErrList>>})]_vars

\* the first listing failed and the second poll has started a consumer
C7_Witness ==
    \E w \in W :
        /\ Logged("could not list nomad allocations", <<>>, ErrList) = 1
        /\ nPolls[w] = 2
        /\ pollPc[w] = "range"
        /\ Len(consumers) = 1

\* C8: Run never returns and the process never ends with status 0: no
\* channel is ever closed, no drain loop ends, and from the first
\* "go func" on the WaitGroup counter stays positive.
C8_RunNeverReturns ==
    /\ exitCode # 0
    /\ \A w \in W : ~closed[w] /\ drainPc[w] # "done"
    /\ (\E w \in W : drainPc[w] # "none") => wg >= 1

\* two watchers run, a consumer has ended on a closed stream and another on
\* an error, and both channels are drained
C8_Witness ==
    /\ Len(nomadTasks) = 2 /\ runNext = 3
    /\ \A w \in W : drainPc[w] = "range" /\ lines[w] = <<>>
    /\ \E c, d \in C :
          /\ consumers[c].pc = "done" /\ consumers[c].ended = "stdout closed"
          /\ consumers[d].pc = "done" /\ consumers[d].ended = "error"
          /\ WatcherOf(c) # WatcherOf(d)

\* the positions of the colons of an argument
Colons(a) == {i \in 1..Len(a) : a[i] = Colon}
Malformed(a) == Cardinality(Colons(a)) >= 2

\* the target an argument with at most one colon stands for
TargetOf(a) ==
    IF Colons(a) = {} THEN [job |-> <<>>, task |-> a]
    ELSE LET p == CHOOSE p \in Colons(a) : TRUE IN
         [job |-> SubSeq(a, 1, p - 1), task |-> SubSeq(a, p + 1, Len(a))]

\* C9: once NewTailCommand has run with a client, an empty argument list
\* has given the error "no tasks specified", an argument with two or more
\* colons an input error naming it, and otherwise nomadTasks holds, in
\* argument order, {job: a, task: b} for "a:b" and {job: "", task: a} for "a".
C9_TargetParsing ==
    (mainPc # "main" /\ newClientOk) =>
        IF args = <<>>
        THEN /\ exitCode = 1 /\ nomadTasks = <<>>
             /\ Logged("NewTailCommand", <<"no tasks specified">>, <<>>) = 1
        ELSE IF \E i \in 1..Len(args) : Malformed(args[i])
        THEN /\ exitCode = 1 /\ nomadTasks = <<>>
             /\ \E i \in 1..Len(args) :
                   /\ Malformed(args[i])
                   /\ Logged("NewTailCommand",
                             <<"expecting 'job:task' or 'task', got">> \o args[i],
                             <<>>) = 1
        ELSE /\ exitCode # 1
             /\ Len(nomadTasks) = Len(args)
             /\ \A i \in 1..Len(args) : nomadTasks[i] = TargetOf(args[i])

\* "a:aa" then "a" were parsed
C9_Witness ==
    /\ mainPc = "Run"
    /\ Len(nomadTasks) = 2
    /\ nomadTasks[1].job # <<>> /\ nomadTasks[1].task # nomadTasks[1].job
    /\ nomadTasks[2].job = <<>> /\ nomadTasks[2].task # <<>>

\* C10: with a malformed argument or none, no goroutine of Run and no poll
\* is ever started, Run is never entered, and once NewTailCommand has
\* returned the process has exited with status 1.
C10_BadArgsStartNothing ==
    (args = <<>> \/ \E i \in 1..Len(args) : Malformed(args[i])) =>
        /\ \A w \in W : drainPc[w] = "none" /\ pollPc[w] = "off"
        /\ mainPc \in {"main", "exit"}
        /\ mainPc = "exit" => exitCode = 1

\* the process has exited on a malformed second argument after a
\* well-formed first one
C10_Witness ==
    /\ mainPc = "exit" /\ newClientOk
    /\ Len(args) = 2
    /\ ~Malformed(args[1]) /\ Colons(args[1]) # {}
    /\ Malformed(args[2])

\* ------------------------------------------------------------------- C11
\* C11: logLine.Format never fails: for every logLine, whatever its raw
\* text and whatever the length of its allocation ID, the call returns a
\* string; when the raw text does not parse as the structured record, the
\* string is the prefix "<jobName>(<first 8 characters of the ID>): "
\* followed by the raw text unchanged.
C11_FormatNeverFails ==
    fmtResult.pc # "call" =>
        /\ fmtResult.pc = "returned"
        /\ Unmarshal(fmtLine.line).err # NoErr =>
              fmtResult.text =
                  CyanString(fmtLine.allocation.Job.Name) \o <<"(">>
                  \o GreenString(SubSeq(fmtLine.allocation.ID, 1, IdPrefix))
                  \o <<"): ">> \o fmtLine.line

\* ------------------------------------------------------------------- C12
\* the (allocation, task) pairs of the listing, an allocation by its place
LsPairs ==
    UNION {{<<k, t>> : t \in DOMAIN lsList[k].TaskStates} :
           k \in 1..Len(lsList)}
Key(r) == r.jobId \o r.task
\* a is at most b in lexicographic order: equal up to some place k where
\* a ends or where a has the smaller byte
LexLeq(a, b) ==
    \E k \in 0..Len(a) :
        /\ k <= Len(b)
        /\ SubSeq(a, 1, k) = SubSeq(b, 1, k)
        /\ \/ k = Len(a)
           \/ k < Len(b) /\ Byte(a[k + 1]) < Byte(b[k + 1])
Ascending(q) ==
    \A i, j \in 1..Len(q) : i < j => LexLeq(Key(q[i]), Key(q[j]))
PlaceIn(q, r) == CHOOSE i \in 1..Len(q) : q[i] = r

\* C12: "ls" prints one row per (allocation, task) pair of the listing, in
\* ascending lexicographic order of jobId+task. The sort step permutes rows
\* into that order and leaves rows of equal jobId+task in the order they had
\* before it; the table step prints the header and then, row by row, the
\* sorted rows, which are one per pair.
C12_LsRowsSortedStable ==
    [][/\ (mainPc = "sort" /\ mainPc' = "table") =>
            /\ Len(rows') = Len(rows)
            /\ \A i \in 1..Len(rows) : \E j \in 1..Len(rows') : rows'[j] = rows[i]
            /\ Ascending(rows')
            /\ \A i, j \in 1..Len(rows') :
                  (i < j /\ Key(rows'[i]) = Key(rows'[j])) =>
                      PlaceIn(rows, rows'[i]) < PlaceIn(rows, rows'[j])
       /\ (mainPc = "table" /\ mainPc' = "exit") =>
            /\ Ascending(rows)
            /\ Len(rows) = Cardinality(LsPairs)
            /\ \A p \in LsPairs :
                  \E i \in 1..Len(rows) :
                      /\ rows[i].allocationId = lsList[p[1]].ID
                      /\ rows[i].jobId = lsList[p[1]].JobID
                      /\ rows[i].task = p[2]
            /\ Len(stdout') = 1 + Len(rows)
            /\ \A i \in 1..Len(rows) :
                  /\ stdout'[i + 1][1] = SubSeq(rows[i].allocationId, 1, IdPrefix)
                  /\ stdout'[i + 1][2] = rows[i].jobId
                  /\ stdout'[i + 1][3] = rows[i].task
      ]_vars

\* a table of four rows was printed, two of them with the same jobId+task
\* from different jobs and two with different ones
C12_Witness ==
    /\ mainPc = "exit" /\ exitCode = 0
    /\ Len(stdout) = 1 + Len(rows)
    /\ Len(rows) = 4
    /\ \E i, j \in 1..Len(rows) :
          /\ i < j
          /\ Key(rows[i]) = Key(rows[j])
          /\ rows[i].jobId # rows[j].jobId
    /\ \E i, j \in 1..Len(rows) : Key(rows[i]) # Key(rows[j])

\* ------------------------------------------------------------------- C13
\* the goroutine poll spawned for c has not ended
Live(c) == consumers[c].pc # "done"
ConsumersOf(w, id) == {c \in C : WatcherOf(c) = w /\ IdOf(c) = id}

\* C13: in every reachable state an allocation ID is in allocationsWatched
\* if and only if a goroutine spawned for that ID has started and has not
\* yet ended: never a spawned goroutine with its ID absent, never an ID
\* present with no live goroutine.
C13_WatchedIffLiveConsumer ==
    \A w \in W : \A id \in AllocIds :
        id \in allocationsWatched[w] <=> \E c \in ConsumersOf(w, id) : Live(c)

\* ------------------------------------------------------------------- C14
\* C14: every access to allocationsWatched is made under the watcher's
\* mutex, so that no membership test of poll runs while a goroutine is
\* between its Lock and its Unlock around the add or the delete, and the
\* map changes only in a step of the goroutine that holds the mutex.
C14_MapAccessUnderMutex ==
    [][\A w \in W :
          /\ Examined(w) => mu[w] = 0
          /\ allocationsWatched'[w] # allocationsWatched[w] =>
                /\ mu[w] \in C
                /\ consumers[mu[w]].pc \in {"add", "delete"}
                /\ consumers'[mu[w]] # consumers[mu[w]]]_vars

\* ------------------------------------------------------------------- C15
\* goroutine c runs its delete in this step
Removes(c) == consumers[c].pc = "delete" /\ consumers'[c].pc = "done"

\* C15: the removal of an ID is made by the goroutine that added it, when
\* it ends, it removes an ID that is still in the set, and no other
\* goroutine is inside watchAllocationLogs for that ID at the removal.
C15_RemovedOnlyByItsEndedConsumer ==
    [][\A c \in C :
          Removes(c) =>
             /\ IdOf(c) \in allocationsWatched[WatcherOf(c)]
             /\ \A d \in ConsumersOf(WatcherOf(c), IdOf(c)) \ {c} :
                   ~Streaming(d)]_vars

\* ------------------------------------------------------------------- C16
\* a logLine is pushed onto the channel of watcher w in this step
Pushes(w) == Len(lines'[w]) = Len(lines[w]) + 1
Pushed(w) == lines'[w][Len(lines'[w])]

\* C16: every push of a logLine for an allocation ID happens while the ID
\* is in allocationsWatched of the watcher, never after its removal.
C16_PushOnlyWhileWatched ==
    [][\A w \in W :
          Pushes(w) => Pushed(w).allocation.ID \in allocationsWatched[w]]_vars

\* ------------------------------------------------------------------- C17
\* the detail fetch of the allocation at hand fails in this step
InfoFails(w) == pollPc[w] = "Info" /\ pollPc'[w] # "Info" /\ diag' # diag
InfoFailed(id) == Logged("could not retrieve allocation", id, <<>>) >= 1

\* C17: a failed detail fetch logs the failure and starts no goroutine and
\* adds nothing to allocationsWatched; poll goes on with the remaining
\* allocations of the listing, or waits for the next tick after the last
\* one; and an allocation whose fetch has failed is selected again whenever
\* a later lookup, made while no goroutine is inside its add or delete,
\* finds it matching, running and not in allocationsWatched.
C17_InfoFailureSkipsOnlyThatOne ==
    [][\A w \in W :
          /\ InfoFails(w) =>
                /\ consumers' = consumers
                /\ allocationsWatched' = allocationsWatched
                /\ diag' = diag (+) SetToBag(
                      {<<"could not retrieve allocation",
                         Head(allocationList[w]).ID, <<>>>>})
                /\ allocationList'[w] = Tail(allocationList[w])
                /\ pollPc'[w] = IF Tail(allocationList[w]) # <<>>
                                THEN "range" ELSE "tick"
                /\ exitCode' = Running
          /\ (/\ Examined(w) /\ mu[w] = 0
              /\ InfoFailed(Head(allocationList[w]).ID)
              /\ Match(w, Head(allocationList[w]))
              /\ Head(allocationList[w]).ID \notin allocationsWatched[w]) =>
                pollPc'[w] = "Info"]_vars

\* the fetch for i1 failed in the first poll, the same poll went on to start
\* a goroutine for i2, and the second poll has selected i1 again
C17_Witness ==
    \E w \in W :
        /\ Logged("could not retrieve allocation", Id1, <<>>) = 1
        /\ ConsumersOf(w, Id1) = {}
        /\ ConsumersOf(w, Id2) # {}
        /\ nPolls[w] = 2
        /\ pollPc[w] = "Info"
        /\ Head(allocationList[w]).ID = Id1

\* ------------------------------------------------------------------- C18
Full(w) == Len(lines[w]) = LinesCap
\* goroutine c is at a send on the channel
AtSend(c) == consumers[c].pc \in {"push", "last"}

\* C18: the channel never holds more than its capacity; while it is full
\* every goroutine at a send on it is blocked, whereas poll is not: at a
\* tick it can take the next listing, inside a listing it can test the next
\* allocation, and after a successful detail fetch it can start a goroutine.
C18_FullChannelBlocksOnlyConsumers ==
    \A w \in W :
        /\ Len(lines[w]) <= LinesCap
        /\ (Alive /\ Full(w)) =>
              /\ \A c \in C :
                    (WatcherOf(c) = w /\ AtSend(c)) =>
                        ~ENABLED (Push(c) \/ PushClosed(c))
              /\ pollPc[w] = "tick" =>
                    /\ ENABLED PollTick(w, <<Good(Id1)>>, NoErr)
                    /\ ENABLED PollTick(w, <<>>, ErrList)
              /\ pollPc[w] = "range" =>
                    \E watched \in BOOLEAN : ENABLED PollRange(w, watched)
              /\ pollPc[w] = "Info" =>
                    /\ ENABLED PollInfo(w, NoErr)
                    /\ ENABLED PollInfo(w, ErrInfo)

\* the channel is full, a goroutine is blocked at its send, and poll, in
\* its second poll, has selected an allocation
C18_Witness ==
    \E w \in W :
        /\ Alive /\ Full(w)
        /\ \E c \in C : WatcherOf(c) = w /\ AtSend(c)
        /\ nPolls[w] = 2
        /\ pollPc[w] = "Info"

\* ------------------------------------------------------------------- C19
\* goroutines were started for the ID and all of them have ended
Ended(w, id) ==
    /\ ConsumersOf(w, id) # {}
    /\ \A c \in ConsumersOf(w, id) : ~Live(c)
\* poll of watcher w starts a goroutine in this step
Spawns(w) ==
    /\ pollPc[w] = "Info"
    /\ allocationList'[w] # allocationList[w]
    /\ Len(consumers') = Len(consumers) + 1

\* C19: once the goroutines started for an ID have ended and removed it, a
\* lookup (made while no goroutine is inside its add or delete) that finds
\* the ID listed as matching and running selects it; the goroutine poll
\* then starts is as for a never-seen ID: at its beginning, nothing
\* received and nothing to push, and it adds the ID and enters its select
\* loop on streams that have delivered nothing yet.
C19_RestartAfterEnd ==
    [][/\ \A w \in W :
            /\ (/\ Examined(w) /\ mu[w] = 0
                /\ Match(w, Head(allocationList[w]))
                /\ Ended(w, Head(allocationList[w]).ID)) =>
                  pollPc'[w] = "Info"
            /\ Spawns(w) =>
                  LET new == consumers'[Len(consumers')] IN
                  /\ new.w = w
                  /\ new.allocation.ID = Head(allocationList[w]).ID
                  /\ new.pc = "go"
                  /\ new.todo = <<>>
                  /\ new.ended = "no"
                  /\ \A s \in Streams : new.frames[s] = <<>>
       /\ \A c \in C :
            (consumers[c].pc = "add" /\ consumers'[c].pc # "add") =>
               /\ consumers'[c].pc = "select"
               /\ IdOf(c) \in allocationsWatched'[WatcherOf(c)]
               /\ consumers'[c].todo = <<>>
               /\ \A s \in Streams : consumers'[c].frames[s] = <<>>]_vars

\* the goroutine for i1 has ended after streaming and removed i1, and the
\* second poll is at its lookup of i1, listed as matching and running
C19_Witness ==
    \E w \in W :
        /\ Alive /\ mu[w] = 0
        /\ pollPc[w] = "range"
        /\ nPolls[w] = 2
        /\ Head(allocationList[w]).ID = Id1
        /\ Match(w, Head(allocationList[w]))
        /\ Ended(w, Id1)
        /\ Id1 \notin allocationsWatched[w]
        /\ \E c \in ConsumersOf(w, Id1) : consumers[c].ended # "no"

\* ------------------------------------------------------------------- C20
\* goroutine c is between jw.mu.Lock() and jw.mu.Unlock()
InCritical(c) == consumers[c].pc \in {"add", "delete"}

\* C20: the mutex is held only by a goroutine between its Lock and its
\* Unlock around the single add or the single delete, never by one at a
\* channel operation or an orchestrator call; the holder can always take
\* its step and release the mutex, and a goroutine that wants the mutex
\* while it is free can take it, whatever the other goroutines are blocked
\* on: no state is a deadlock on the mutex.
C20_MutexOnlyAroundMapWrites ==
    /\ \A w \in W :
          mu[w] # 0 =>
             /\ mu[w] \in C
             /\ WatcherOf(mu[w]) = w
             /\ InCritical(mu[w])
             /\ Alive => ENABLED (Add(mu[w]) \/ Delete(mu[w]))
    /\ \A c \in C :
          /\ InCritical(c) <=> mu[WatcherOf(c)] = c
          /\ (Alive /\ consumers[c].pc \in {"go", "returned"}
                /\ mu[WatcherOf(c)] = 0) => ENABLED Lock(c)

\* one goroutine is blocked at its send on the full channel while another
\* holds the mutex for its add or its delete
C20_Witness ==
    \E c, d \in C :
        /\ Alive
        /\ WatcherOf(c) = WatcherOf(d)
        /\ AtSend(c) /\ Full(WatcherOf(c))
        /\ InCritical(d) /\ mu[WatcherOf(d)] = d

====
